---- MODULE Spec2Model ----
(***************************************************************************)
(* Model of app.py: the request dispatcher generate_content_with_retry     *)
(* (retry loop with exponential backoff, response parsing, grounding       *)
(* sources) and the chat input handler that keeps the session transcript   *)
(* and forms the outbound history.                                         *)
(*                                                                         *)
(* Python values are modelled as follows.                                  *)
(*   - a str is a TLA+ string; string concatenation is modelled by         *)
(*     sequences of chunks (a content is a sequence of strings);           *)
(*   - an optional dict key is a sequence of length 0 (key absent) or 1    *)
(*     (key present, with that value);                                     *)
(*   - a list is a sequence; a dict with known keys is a record.           *)
(* The Korean literals of the source are named by ASCII strings.           *)
(***************************************************************************)
EXTENDS Integers, Sequences, FiniteSets, TLC

\* ------------------------------------------------------------------ bounds

\* largest max_retries a direct call of the dispatcher is given
MaxRetriesBound == 5
\* longest grounding attribution list of a response
MaxAttributions == 2
\* a new chat input is accepted while the transcript is shorter than this
MaxMessages == 7

\* ------------------------------------------------------------- constants

\* def generate_content_with_retry(prompt, history, max_retries=5)
DefaultMaxRetries == 5
\* st.session_state.messages[:-1][-5:]
HistoryWindow == 5

\* "응답을 생성할 수 없습니다."  (line 81)
NO_TEXT_FALLBACK == "ERR_NO_RESPONSE_GENERATED"
\* "오류: API 호출에 실패했습니다."  (line 93)
CALL_FAILED == "ERR_API_CALL_FAILED"
\* "오류: 알 수 없는 이유로 API 호출에 실패했습니다."  (line 95)
UNKNOWN_FAILURE == "ERR_API_CALL_FAILED_UNKNOWN_REASON"

\* ------------------------------------------------------------ input sets

Prompts == {"p1", "p2"}
AnswerTexts == {"answer"}
\* statuses for which raise_for_status raises HTTPError
HttpErrorStatuses == {400, 401, 403, 429, 500}
HttpErrorBodies == {"body"}

Absent == <<>>
Some(v) == <<v>>
Opt(S) == {Absent} \cup {Some(v) : v \in S}
RECURSIVE SeqsOfLen(_, _)
SeqsOfLen(S, k) ==
    IF k = 0 THEN {<<>>}
    ELSE {Append(s, x) : s \in SeqsOfLen(S, k - 1), x \in S}
SeqsUpTo(S, n) == UNION {SeqsOfLen(S, k) : k \in 0..n}

\* web entries: without keys, without uri, without title, with an empty uri,
\* with an empty title, and two complete ones
Webs ==
    { [uri |-> Absent, title |-> Absent],
      [uri |-> Absent, title |-> Some("t1")],
      [uri |-> Some("u1"), title |-> Absent],
      [uri |-> Some(""), title |-> Some("t1")],
      [uri |-> Some("u1"), title |-> Some("")],
      [uri |-> Some("u1"), title |-> Some("t1")],
      [uri |-> Some("u2"), title |-> Some("t2")] }
Attributions == [web : Opt(Webs)]
AttributionLists == SeqsUpTo(Attributions, MaxAttributions)
GroundingMetadatas ==
    [hasOtherKeys : BOOLEAN, groundingAttributions : {Absent}]
    \cup
    [hasOtherKeys : {TRUE}, groundingAttributions : {Some(l) : l \in AttributionLists}]
FullAttribution == [web |-> Some([uri |-> Some("u1"), title |-> Some("t1")])]
FewGroundingMetadatas ==
    { [hasOtherKeys |-> FALSE, groundingAttributions |-> Some(<<FullAttribution>>)] }
Parts == [text : Opt({""} \cup AnswerTexts)]
Contents == [parts : Opt(SeqsUpTo(Parts, 1))]
TextContents == { [parts |-> Some(<<[text |-> Some(t)]>>)] : t \in AnswerTexts }
\* candidates with answer text and every grounding shape, and candidates with
\* every content shape and few grounding shapes
Candidates ==
    [hasOtherKeys : {TRUE}, content : {Some(c) : c \in TextContents},
     groundingMetadata : Opt(GroundingMetadatas)]
    \cup
    [hasOtherKeys : BOOLEAN, content : Opt(Contents),
     groundingMetadata : Opt(FewGroundingMetadatas)]
\* the JSON bodies of HTTP-success responses
Responses == [candidates : Opt(SeqsUpTo(Candidates, 1))]

\* -------------------------------------------------------- pure functions

EmptyCandidate ==
    [hasOtherKeys |-> FALSE, content |-> Absent, groundingMetadata |-> Absent]
EmptyContent == [parts |-> Absent]
EmptyPart == [text |-> Absent]
EmptyWeb == [uri |-> Absent, title |-> Absent]

\* truth value of an optional str: None and "" are falsy
TruthyStr(o) == o # Absent /\ o[1] # ""
\* truth value of a candidate dict: {} is falsy
TruthyCandidate(c) ==
    c.hasOtherKeys \/ c.content # Absent \/ c.groundingMetadata # Absent
\* truth value of candidate.get('groundingMetadata'): None and {} are falsy
TruthyMetadata(o) ==
    o # Absent /\ (o[1].hasOtherKeys \/ o[1].groundingAttributions # Absent)

\* attr.get('web', {})
WebOf(attr) == IF attr.web = Absent THEN EmptyWeb ELSE attr.web[1]

\* variant: tests the presence of the keys, not the truth of their values
KeepAttributionIfKeysPresent(attr) ==
    WebOf(attr).uri # Absent /\ WebOf(attr).title # Absent

\* if attr.get('web', {}).get('uri') and attr.get('web', {}).get('title')
KeepAttribution(attr) ==
    TruthyStr(WebOf(attr).uri) /\ TruthyStr(WebOf(attr).title)

\* {"uri": attr['web']['uri'], "title": attr['web']['title']}
SourceOf(attr) == [uri |-> attr.web[1].uri[1], title |-> attr.web[1].title[1]]

RECURSIVE SourcesFrom(_)
\* the list comprehension over grounding_metadata['groundingAttributions']
SourcesFrom(attrs) ==
    IF attrs = <<>> THEN <<>>
    ELSE IF KeepAttribution(Head(attrs))
         THEN <<SourceOf(Head(attrs))>> \o SourcesFrom(Tail(attrs))
         ELSE SourcesFrom(Tail(attrs))

\* sources = [] ; if grounding_metadata and
\* grounding_metadata.get('groundingAttributions'): sources = [...]
ExtractSources(candidate) ==
    LET grounding_metadata == candidate.groundingMetadata
    IN  IF /\ TruthyMetadata(grounding_metadata)
           /\ grounding_metadata[1].groundingAttributions # Absent
           /\ grounding_metadata[1].groundingAttributions[1] # <<>>
        THEN SourcesFrom(grounding_metadata[1].groundingAttributions[1])
        ELSE <<>>

Return(text, sources) ==
    [raised |-> FALSE, exc |-> "", text |-> text, sources |-> sources]
Raise(exc) == [raised |-> TRUE, exc |-> exc, text |-> "", sources |-> <<>>]

\* variant: candidate['groundingMetadata']['groundingAttributions'] is indexed
\* without the guard, so a response without them raises KeyError
ParseResponseIndexingMetadata(json) ==
    LET candidates == IF json.candidates = Absent
                      THEN <<EmptyCandidate>>
                      ELSE json.candidates[1]
    IN  IF candidates = <<>> THEN Raise("IndexError")
        ELSE
        LET candidate == candidates[1]
            content == IF candidate.content = Absent
                       THEN EmptyContent ELSE candidate.content[1]
            parts == IF content.parts = Absent
                     THEN <<EmptyPart>> ELSE content.parts[1]
        IN  IF ~TruthyCandidate(candidate)
            THEN Return(NO_TEXT_FALLBACK, <<>>)
            ELSE IF parts = <<>> THEN Raise("IndexError")
            ELSE IF TruthyStr(parts[1].text)
            THEN IF \/ candidate.groundingMetadata = Absent
                    \/ candidate.groundingMetadata[1].groundingAttributions = Absent
                 THEN Raise("KeyError")
                 ELSE Return(parts[1].text[1],
                             SourcesFrom(candidate.groundingMetadata[1].groundingAttributions[1]))
            ELSE Return(NO_TEXT_FALLBACK, <<>>)

\* variant: a missing or empty text is returned as an (empty) answer with the
\* sources instead of the fallback
ParseResponseWithoutFallback(json) ==
    LET candidates == IF json.candidates = Absent
                      THEN <<EmptyCandidate>>
                      ELSE json.candidates[1]
    IN  IF candidates = <<>> THEN Raise("IndexError")
        ELSE
        LET candidate == candidates[1]
            content == IF candidate.content = Absent
                       THEN EmptyContent ELSE candidate.content[1]
            parts == IF content.parts = Absent
                     THEN <<EmptyPart>> ELSE content.parts[1]
        IN  IF ~TruthyCandidate(candidate)
            THEN Return(NO_TEXT_FALLBACK, <<>>)
            ELSE IF parts = <<>> THEN Raise("IndexError")
            ELSE IF TruthyStr(parts[1].text)
            THEN Return(parts[1].text[1], ExtractSources(candidate))
            ELSE Return("", ExtractSources(candidate))

\* the parsing of response.json(), from the candidate lookup to the return
ParseResponse(json) ==
    LET candidates == IF json.candidates = Absent
                      THEN <<EmptyCandidate>>
                      ELSE json.candidates[1]
    IN  IF candidates = <<>> THEN Raise("IndexError")
        ELSE
        LET candidate == candidates[1]
            content == IF candidate.content = Absent
                       THEN EmptyContent ELSE candidate.content[1]
            parts == IF content.parts = Absent
                     THEN <<EmptyPart>> ELSE content.parts[1]
        IN  IF ~TruthyCandidate(candidate)
            THEN Return(NO_TEXT_FALLBACK, <<>>)
            ELSE IF parts = <<>> THEN Raise("IndexError")
            ELSE IF TruthyStr(parts[1].text)
            THEN Return(parts[1].text[1], ExtractSources(candidate))
            ELSE Return(NO_TEXT_FALLBACK, <<>>)

\* variant: a product instead of a power
wait_time_linear(attempt_) == 2 * attempt_

\* wait_time = 2 ** attempt
wait_time(attempt_) == 2 ^ attempt_

\* variant: off by one, a sleep follows the last attempt as well
RetryAllowedOffByOne(attempt_, max_retries_) == attempt_ < max_retries_

\* if attempt < max_retries - 1
RetryAllowed(attempt_, max_retries_) == attempt_ < max_retries_ - 1

\* variant: the message does not carry the status code
HttpErrorMessageWithoutStatus(status, body) ==
    [template |-> "HTTP_ERROR", status |-> 0, text |-> body]

\* st.error(f"HTTP ... {e.response.status_code}. ...: {e.response.text}")
HttpErrorMessage(status, body) ==
    [template |-> "HTTP_ERROR", status |-> status, text |-> body]
\* st.error("API call failed. check the network connection or the API key.")
CallFailedMessage == [template |-> "API_CALL_FAILED", status |-> 0, text |-> ""]

\* {"role": message["role"], "parts": [{"text": message["content"]}]}
ContentEntry(message) ==
    [role |-> message.role, parts |-> <<[text |-> message.content]>>]

\* contents: the history converted entry by entry, then the user prompt
BuildContents(prompt_, history_) ==
    [i \in 1..Len(history_) |-> ContentEntry(history_[i])]
    \o <<[role |-> "user", parts |-> <<[text |-> <<prompt_>>]>>]>>

\* seq[:-1]
AllButLast(seq) == IF seq = <<>> THEN <<>> ELSE SubSeq(seq, 1, Len(seq) - 1)
\* seq[-n:]
LastN(seq, n) ==
    IF Len(seq) <= n THEN seq ELSE SubSeq(seq, Len(seq) - n + 1, Len(seq))

\* variant: the user message just appended is not dropped
recent_messages_keeping_last(msgs) == LastN(msgs, HistoryWindow)

\* recent_messages = st.session_state.messages[:-1][-5:]
recent_messages(msgs) == LastN(AllButLast(msgs), HistoryWindow)

\* history_for_api: a copy of role and content of each recent message
history_for_api(msgs) ==
    [i \in 1..Len(recent_messages(msgs)) |->
        [role |-> recent_messages(msgs)[i].role,
         content |-> recent_messages(msgs)[i].content]]

\* f"- [{s['title']}]({s['uri']})"
SourceLink(s) == <<"- [", s.title, "](", s.uri, ")">>

RECURSIVE JoinLinks(_)
\* "\n".join([...])
JoinLinks(sources) ==
    IF sources = <<>> THEN <<>>
    ELSE IF Len(sources) = 1 THEN SourceLink(sources[1])
    ELSE SourceLink(Head(sources)) \o <<"NEWLINE">> \o JoinLinks(Tail(sources))

\* full_response_content: the text, and when there are sources the header
\* "\n\n---\n**...:**\n" and the links joined by newlines
full_response_content(response_text, sources) ==
    IF sources # <<>>
    THEN <<response_text>> \o <<"SOURCES_HEADER">> \o JoinLinks(sources)
    ELSE <<response_text>>

UserMessage(prompt_) == [role |-> "user", content |-> <<prompt_>>]
AssistantMessage(response_text, sources) ==
    [role |-> "assistant", content |-> full_response_content(response_text, sources)]

\* ------------------------------------------------------------------ state

VARIABLES
    messages,     \* st.session_state.messages, the session transcript
    pc,           \* "idle", "sending" (inside the retry loop, before a POST),
                  \* "returned" or "raised" (how the last dispatch ended)
    prompt,       \* argument of the dispatch
    history,      \* argument of the dispatch
    max_retries,  \* argument of the dispatch
    contents,     \* payload["contents"]
    attempt,      \* loop variable of the retry loop
    posts,        \* outcome of each requests.post of the dispatch, in order
    sleeps,       \* argument of each time.sleep of the dispatch, in order
    errors,       \* argument of each st.error of the dispatch, in order
    response,     \* response.json() of the last successful POST, if any
    result,       \* the (text, sources) the dispatch returned
    exc           \* the exception the dispatch let escape, "" if none

vars == <<messages, pc, prompt, history, max_retries, contents, attempt,
          posts, sleeps, errors, response, result, exc>>

NoResult == [text |-> "", sources |-> <<>>]

PostOk == [kind |-> "ok", status |-> 200]
PostHttp(status) == [kind |-> "http", status |-> status]
PostNet == [kind |-> "net", status |-> 0]

\* the dispatcher returns (text, sources)
Returns(text, sources) ==
    /\ pc' = "returned"
    /\ result' = [text |-> text, sources |-> sources]
    /\ exc' = ""

\* the dispatcher lets an exception escape
Raises(e) ==
    /\ pc' = "raised"
    /\ result' = NoResult
    /\ exc' = e

\* for attempt in range(max_retries): the next iteration, or the statement
\* after the loop when the range is exhausted
LoopTo(next_attempt) ==
    /\ attempt' = next_attempt
    /\ IF next_attempt < max_retries'
       THEN pc' = "sending" /\ result' = NoResult /\ exc' = ""
       ELSE Returns(UNKNOWN_FAILURE, <<>>)

\* generate_content_with_retry(prompt, history, max_retries) up to the first
\* iteration of the retry loop
Dispatch(p, h, m) ==
    /\ prompt' = p
    /\ history' = h
    /\ max_retries' = m
    /\ contents' = BuildContents(p, h)
    /\ posts' = <<>>
    /\ sleeps' = <<>>
    /\ errors' = <<>>
    /\ response' = Absent
    /\ LoopTo(0)

\* the POST succeeds: raise_for_status passes, the body is parsed
PostSuccess(json) ==
    /\ pc = "sending"
    /\ posts' = Append(posts, PostOk)
    /\ response' = Some(json)
    /\ IF ParseResponse(json).raised
       THEN Raises(ParseResponse(json).exc)
       ELSE Returns(ParseResponse(json).text, ParseResponse(json).sources)
    /\ UNCHANGED <<prompt, history, max_retries, contents, attempt, sleeps, errors>>

\* variant: the HTTPError is caught by the RequestException clause (HTTPError
\* is a subclass of RequestException) and handled as a network failure
PostHttpErrorRetried(status, body) ==
    /\ pc = "sending"
    /\ posts' = Append(posts, PostHttp(status))
    /\ UNCHANGED <<prompt, history, max_retries, contents, response>>
    /\ IF RetryAllowed(attempt, max_retries)
       THEN /\ sleeps' = Append(sleeps, wait_time(attempt))
            /\ errors' = errors
            /\ LoopTo(attempt + 1)
       ELSE /\ errors' = Append(errors, CallFailedMessage)
            /\ Returns(CALL_FAILED, <<>>)
            /\ UNCHANGED <<attempt, sleeps>>

\* variant: the HTTP error is reported, but the loop is left by the return of
\* the call-failed result
PostHttpErrorReturningCallFailed(status, body) ==
    /\ pc = "sending"
    /\ posts' = Append(posts, PostHttp(status))
    /\ errors' = Append(errors, HttpErrorMessage(status, body))
    /\ Returns(CALL_FAILED, <<>>)
    /\ UNCHANGED <<prompt, history, max_retries, contents, attempt, sleeps, response>>

\* raise_for_status raises HTTPError: except requests.exceptions.HTTPError
PostHttpError(status, body) ==
    /\ pc = "sending"
    /\ posts' = Append(posts, PostHttp(status))
    /\ errors' = Append(errors, HttpErrorMessage(status, body))
    /\ Returns(UNKNOWN_FAILURE, <<>>)
    /\ UNCHANGED <<prompt, history, max_retries, contents, attempt, sleeps, response>>

\* variant: every network failure is reported, also one that is retried
PostNetworkErrorReportingRetries ==
    /\ pc = "sending"
    /\ posts' = Append(posts, PostNet)
    /\ errors' = Append(errors, CallFailedMessage)
    /\ UNCHANGED <<prompt, history, max_retries, contents, response>>
    /\ IF RetryAllowed(attempt, max_retries)
       THEN /\ sleeps' = Append(sleeps, wait_time(attempt))
            /\ LoopTo(attempt + 1)
       ELSE /\ Returns(CALL_FAILED, <<>>)
            /\ UNCHANGED <<attempt, sleeps>>

\* requests.post raises another RequestException:
\* except requests.exceptions.RequestException
PostNetworkError ==
    /\ pc = "sending"
    /\ posts' = Append(posts, PostNet)
    /\ UNCHANGED <<prompt, history, max_retries, contents, response>>
    /\ IF RetryAllowed(attempt, max_retries)
       THEN /\ sleeps' = Append(sleeps, wait_time(attempt))
            /\ errors' = errors
            /\ LoopTo(attempt + 1)
       ELSE /\ errors' = Append(errors, CallFailedMessage)
            /\ Returns(CALL_FAILED, <<>>)
            /\ UNCHANGED <<attempt, sleeps>>

\* ------------------------------------------------- the dispatcher alone

\* the histories a direct call of the dispatcher is given
Histories ==
    { <<>>,
      <<[role |-> "user", content |-> <<"p2">>]>>,
      <<[role |-> "user", content |-> <<"p2">>],
        [role |-> "assistant", content |-> <<"answer">>]>> }

\* a direct call generate_content_with_retry(p, h, m)
Call(p, h, m) ==
    /\ pc = "idle"
    /\ Dispatch(p, h, m)
    /\ UNCHANGED messages

CallPostSuccess == \E json \in Responses : PostSuccess(json) /\ UNCHANGED messages
CallPostHttpError ==
    \E status \in HttpErrorStatuses, body \in HttpErrorBodies :
        PostHttpError(status, body) /\ UNCHANGED messages
CallPostNetworkError == PostNetworkError /\ UNCHANGED messages

Init ==
    /\ messages = <<>>
    /\ pc = "idle"
    /\ prompt = ""
    /\ history = <<>>
    /\ max_retries = DefaultMaxRetries
    /\ contents = <<>>
    /\ attempt = 0
    /\ posts = <<>>
    /\ sleeps = <<>>
    /\ errors = <<>>
    /\ response = Absent
    /\ result = NoResult
    /\ exc = ""

NextDispatch ==
    \/ \E p \in {"p1"}, h \in Histories, m \in 0..MaxRetriesBound : Call(p, h, m)
    \/ CallPostSuccess
    \/ CallPostHttpError
    \/ CallPostNetworkError

SpecDispatch == Init /\ [][NextDispatch]_vars

\* ---------------------------------------------------- the chat session

\* the HTTP-success bodies the session is run with
SessionResponses ==
    { json \in Responses :
        \/ json.candidates = Absent
        \/ json.candidates[1] = <<>>
        \/ /\ json.candidates[1] # <<>>
           /\ json.candidates[1][1].hasOtherKeys
           /\ json.candidates[1][1].content \in Opt(TextContents)
           /\ json.candidates[1][1].groundingMetadata \in Opt(FewGroundingMetadatas) }

SessionHttpErrorStatuses == {401, 429, 500}

\* variant: a failure text is shown but not stored in the transcript
AfterDispatchSkippingFailures(msgs) ==
    messages' = IF /\ pc' = "returned"
                   /\ result'.text \notin {CALL_FAILED, UNKNOWN_FAILURE, NO_TEXT_FALLBACK}
                THEN Append(msgs, AssistantMessage(result'.text, result'.sources))
                ELSE msgs

\* variant: the transcript itself is cut to the window when the reply is stored
AfterDispatchTruncating(msgs) ==
    messages' = IF pc' = "returned"
                THEN LastN(Append(msgs, AssistantMessage(result'.text, result'.sources)),
                           HistoryWindow)
                ELSE msgs

\* the rest of the chat input handler once the dispatcher has returned: the
\* assistant message is appended; an escaping exception ends the script run
AfterDispatch(msgs) ==
    messages' = IF pc' = "returned"
                THEN Append(msgs, AssistantMessage(result'.text, result'.sources))
                ELSE msgs

\* if prompt := st.chat_input(...): the user message is appended, the history
\* is formed and the dispatcher is called with the default max_retries
Submit(p) ==
    /\ pc # "sending"
    /\ Len(messages) < MaxMessages
    /\ Dispatch(p, history_for_api(Append(messages, UserMessage(p))), DefaultMaxRetries)
    /\ AfterDispatch(Append(messages, UserMessage(p)))

HandlerPostSuccess ==
    \E json \in SessionResponses : PostSuccess(json) /\ AfterDispatch(messages)
HandlerPostHttpError ==
    \E status \in SessionHttpErrorStatuses, body \in HttpErrorBodies :
        PostHttpError(status, body) /\ AfterDispatch(messages)
HandlerPostNetworkError == PostNetworkError /\ AfterDispatch(messages)

Next ==
    \/ \E p \in Prompts : Submit(p)
    \/ HandlerPostSuccess
    \/ HandlerPostHttpError
    \/ HandlerPostNetworkError

Spec == Init /\ [][Next]_vars

\* ------------------------------------------------------------- properties

Last(seq) == seq[Len(seq)]
AllNetwork(seq) == \A i \in 1..Len(seq) : seq[i].kind = "net"
\* the first i-1 POSTs failed at network level
LeadingNetwork(i) == \A j \in 1..(i - 1) : posts[j].kind = "net"
\* the sleeps are 1, 2, 4, ...: the i-th (from 0) lasts 2^i seconds
Doubling(seq) == \A i \in 1..Len(seq) : seq[i] = 2 ^ (i - 1)

\* a JSON body with candidates[0].content.parts[0].text present and non-empty
HasAnswerText(json) ==
    /\ json.candidates # Absent
    /\ json.candidates[1] # <<>>
    /\ json.candidates[1][1].content # Absent
    /\ json.candidates[1][1].content[1].parts # Absent
    /\ json.candidates[1][1].content[1].parts[1] # <<>>
    /\ json.candidates[1][1].content[1].parts[1][1].text # Absent
    /\ json.candidates[1][1].content[1].parts[1][1].text[1] # ""
AnswerTextOf(json) == json.candidates[1][1].content[1].parts[1][1].text[1]
\* its grounding attributions, <<>> when there are none
AttributionsOf(json) ==
    LET gm == json.candidates[1][1].groundingMetadata
    IN  IF gm = Absent \/ gm[1].groundingAttributions = Absent
        THEN <<>> ELSE gm[1].groundingAttributions[1]
SuccessWithText == response # Absent /\ HasAnswerText(response[1])

\* C1: k < max_retries network failures followed by a success with answer
\* text: the call returns that success result after exactly k+1 attempts and
\* exactly k sleeps, the i-th (from 0) of 2^i seconds; with max_retries = 5
\* and k = 3 the sleeps are 1, 2, 4.
C1_BackoffThenSuccess ==
    \A k \in 0..(max_retries - 1) :
        (/\ Len(posts) >= k + 1
         /\ LeadingNetwork(k + 1)
         /\ posts[k + 1].kind = "ok"
         /\ SuccessWithText)
        => /\ pc = "returned"
           /\ Len(posts) = k + 1
           /\ result.text = AnswerTextOf(response[1])
           /\ Len(sleeps) = k
           /\ Doubling(sleeps)
           /\ (max_retries = 5 /\ k = 3 => sleeps = <<1, 2, 4>>)

C1_Witness ==
    /\ max_retries = 5
    /\ posts = <<PostNet, PostNet, PostNet, PostOk>>
    /\ SuccessWithText
    /\ pc = "returned"
    /\ sleeps = <<1, 2, 4>>

\* C2: for max_retries >= 1, max_retries consecutive network failures make
\* the call return the call-failed text with empty sources after exactly
\* max_retries attempts, and no attempt is made after them.
C2_RetriesExhausted ==
    max_retries >= 1 =>
        /\ Len(posts) <= max_retries
        /\ (Len(posts) = max_retries /\ AllNetwork(posts))
           => /\ pc = "returned"
              /\ result = [text |-> CALL_FAILED, sources |-> <<>>]

C2_Witness ==
    /\ max_retries >= 2
    /\ Len(posts) = max_retries
    /\ AllNetwork(posts)
    /\ pc = "returned"

\* C3: a POST that ends in an HTTP error status, first or after network
\* failures, is reported at once and is the last POST of the dispatch, with
\* no sleep after it.
C3_HttpErrorNotRetried ==
    \A i \in 1..Len(posts) :
        posts[i].kind = "http"
        => /\ i = Len(posts)
           /\ pc = "returned"
           /\ LeadingNetwork(i)
           /\ Len(sleeps) = i - 1
           /\ Len(errors) = 1
           /\ errors[1].template = "HTTP_ERROR"
           /\ errors[1].status = posts[i].status

C3_Witness ==
    /\ Len(posts) = 3
    /\ posts[3].kind = "http"
    /\ posts[3].status \in {401, 403, 429}
    /\ Len(sleeps) = 2
    /\ pc = "returned"

\* C4: an HTTP 429 ends the dispatch with no retry, and what is reported for
\* it differs from what is reported for every other status and for a network
\* failure.
C4_QuotaShortCircuit ==
    \A i \in 1..Len(posts) :
        posts[i] = PostHttp(429)
        => /\ i = Len(posts)
           /\ pc = "returned"
           /\ Len(sleeps) = i - 1
           /\ Len(errors) = 1
           /\ \E b \in HttpErrorBodies : errors[1] = HttpErrorMessage(429, b)
           /\ \A s \in HttpErrorStatuses \ {429}, b \in HttpErrorBodies :
                  errors[1] # HttpErrorMessage(s, b)
           /\ errors[1] # CallFailedMessage

C4_Witness ==
    /\ posts = <<PostHttp(429)>>
    /\ pc = "returned"
    /\ sleeps = <<>>
    /\ Len(errors) = 1

\* C5: an HTTP 401 or 403 is never handled as a network failure: no sleep
\* follows it, the call-failed message is not reported and the call-failed
\* result is not returned; the HTTP error with that status is reported.
C5_AuthNotNetworkClass ==
    \A i \in 1..Len(posts) :
        (posts[i].kind = "http" /\ posts[i].status \in {401, 403})
        => /\ Len(sleeps) < i
           /\ result.text # CALL_FAILED
           /\ \A j \in 1..Len(errors) : errors[j] # CallFailedMessage
           /\ \E j \in 1..Len(errors) :
                  /\ errors[j].template = "HTTP_ERROR"
                  /\ errors[j].status = posts[i].status

C5_Witness ==
    /\ max_retries >= 1
    /\ Len(posts) = max_retries
    /\ Last(posts).kind = "http"
    /\ Last(posts).status \in {401, 403}
    /\ pc = "returned"

Min(a, b) == IF a <= b THEN a ELSE b

\* C6: during every dispatch of the session the contents sent upstream are
\* the messages before the current user message, cut to the last 5 in their
\* order, each converted to {role, parts: [{text}]}, followed by the current
\* prompt with role user as the final entry; the current user message itself
\* is not among the history entries.
C6_OutboundHistory ==
    pc = "sending" =>
        LET prior == Len(messages) - 1
            kept == Min(prior, 5)
        IN  /\ messages # <<>>
            /\ Last(messages) = [role |-> "user", content |-> <<prompt>>]
            /\ Len(history) = kept
            /\ Len(contents) = kept + 1
            /\ \A i \in 1..kept :
                   /\ history[i] = messages[prior - kept + i]
                   /\ contents[i].role = messages[prior - kept + i].role
                   /\ contents[i].parts
                        = <<[text |-> messages[prior - kept + i].content]>>
            /\ contents[kept + 1]
                 = [role |-> "user", parts |-> <<[text |-> <<prompt>>]>>]

C6_Witness ==
    /\ pc = "sending"
    /\ Len(messages) = 7
    /\ Len(contents) = 6
    /\ messages[1] # messages[2]
    /\ attempt = 1

\* the source a complete attribution is mapped to
C7_Complete(attr) ==
    /\ attr.web # Absent
    /\ attr.web[1].uri \notin {Absent, Some("")}
    /\ attr.web[1].title \notin {Absent, Some("")}
C7_Expected(attrs) ==
    [i \in 1..Len(SelectSeq(attrs, C7_Complete)) |->
        [title |-> SelectSeq(attrs, C7_Complete)[i].web[1].title[1],
         uri |-> SelectSeq(attrs, C7_Complete)[i].web[1].uri[1]]]

\* C7: for a success with answer text the returned sources are exactly the
\* attributions with a non-empty web uri and a non-empty web title, in their
\* order, each as {title, uri}; an incomplete attribution is left out and the
\* call still returns the answer.
C7_SourcesFiltered ==
    (posts # <<>> /\ Last(posts).kind = "ok" /\ SuccessWithText)
    => /\ pc = "returned"
       /\ result.text = AnswerTextOf(response[1])
       /\ result.sources = C7_Expected(AttributionsOf(response[1]))

C7_Witness ==
    /\ pc = "returned"
    /\ SuccessWithText
    /\ Len(AttributionsOf(response[1])) = 2
    /\ ~C7_Complete(AttributionsOf(response[1])[1])
    /\ AttributionsOf(response[1])[1].web # Absent
    /\ Len(result.sources) = 1
    /\ result.sources[1] = [title |-> "t2", uri |-> "u2"]

\* no grounding metadata: key absent, an empty dict, or a dict without
\* groundingAttributions
C8_NoGrounding(json) ==
    \/ json.candidates[1][1].groundingMetadata = Absent
    \/ json.candidates[1][1].groundingMetadata[1].groundingAttributions = Absent
    \/ json.candidates[1][1].groundingMetadata[1].groundingAttributions[1] = <<>>

\* C8: a success with answer text and no grounding metadata returns the
\* answer text with sources = [].
C8_NoMetadataNoSources ==
    (/\ posts # <<>>
     /\ Last(posts).kind = "ok"
     /\ SuccessWithText
     /\ C8_NoGrounding(response[1]))
    => /\ pc = "returned"
       /\ result = [text |-> AnswerTextOf(response[1]), sources |-> <<>>]

C8_Witness ==
    /\ pc = "returned"
    /\ SuccessWithText
    /\ response[1].candidates[1][1].groundingMetadata # Absent
    /\ C8_NoGrounding(response[1])
    /\ result.sources = <<>>

\* C9 as stated: whatever the outcomes of the attempts made, the call returns
\* from inside the loop and the unknown-failure result is never returned.
C9_UnknownFailureUnreachable ==
    posts # <<>> => ~(pc = "returned" /\ result.text = UNKNOWN_FAILURE)

\* C9 as amended: the unknown-failure result is returned exactly when the
\* last attempt ended in an HTTP error status, or when max_retries <= 0 so
\* that no attempt was made; never after a success or a network failure.
C9_UnknownFailureOnlyAfterHttpError ==
    pc = "returned" =>
        (result.text = UNKNOWN_FAILURE
         <=> \/ max_retries <= 0
             \/ (posts # <<>> /\ Last(posts).kind = "http"))

C9_Witness ==
    /\ pc = "returned"
    /\ max_retries = 5
    /\ Len(posts) = 2
    /\ Last(posts).kind = "http"
    /\ result = [text |-> UNKNOWN_FAILURE, sources |-> <<>>]

\* C10: whatever the shape of an HTTP-success body, the dispatcher returns a
\* (text, sources) result and lets no exception escape.
C10_NoEscapingException == pc # "raised"

\* a JSON body whose first candidate has a first content part without text
\* or with an empty text
C11_FirstPartWithoutText(json) ==
    /\ json.candidates # Absent
    /\ json.candidates[1] # <<>>
    /\ json.candidates[1][1].content # Absent
    /\ json.candidates[1][1].content[1].parts # Absent
    /\ json.candidates[1][1].content[1].parts[1] # <<>>
    /\ json.candidates[1][1].content[1].parts[1][1].text \in {Absent, Some("")}

\* C11: an HTTP success whose first candidate's first content part has no
\* text, or an empty one, returns the fallback literal with empty sources,
\* grounding attributions or not, with no retry, no sleep and no reported
\* error for it.
C11_NoTextFallback ==
    \A i \in 1..Len(posts) :
        (/\ posts[i].kind = "ok"
         /\ response # Absent
         /\ C11_FirstPartWithoutText(response[1]))
        => /\ i = Len(posts)
           /\ pc = "returned"
           /\ result = [text |-> NO_TEXT_FALLBACK, sources |-> <<>>]
           /\ Len(sleeps) = i - 1
           /\ errors = <<>>

C11_Witness ==
    /\ pc = "returned"
    /\ Len(posts) = 2
    /\ response # Absent
    /\ C11_FirstPartWithoutText(response[1])
    /\ response[1].candidates[1][1].content[1].parts[1][1].text = Some("")
    /\ response[1].candidates[1][1].groundingMetadata # Absent
    /\ AttributionsOf(response[1]) # <<>>
    /\ result.text = NO_TEXT_FALLBACK

\* the states of a single dispatch
C12_Sending == pc = "sending"
C12_Success == pc = "returned" /\ posts # <<>> /\ Last(posts).kind = "ok"
C12_HttpError == pc = "returned" /\ posts # <<>> /\ Last(posts).kind = "http"
C12_RetriesExhausted ==
    pc = "returned" /\ posts # <<>> /\ Last(posts).kind = "net"

\* C12: a dispatch starts by Idle -> Sending with no sleep; from Sending one
\* POST leads to Success, to HttpError, or through NetworkError back to
\* Sending after exactly one sleep when attempts remain and to
\* RetriesExhausted with no sleep when none remain; Success, HttpError and
\* RetriesExhausted are left only by the start of another dispatch.
C12_Step ==
    \/ /\ ~C12_Sending
       /\ C12_Sending'
       /\ posts' = <<>>
       /\ sleeps' = <<>>
    \/ /\ C12_Sending
       /\ Len(posts') = Len(posts) + 1
       /\ SubSeq(posts', 1, Len(posts)) = posts
       /\ \/ /\ Last(posts').kind = "ok"
             /\ C12_Success'
             /\ sleeps' = sleeps
          \/ /\ Last(posts').kind = "http"
             /\ C12_HttpError'
             /\ sleeps' = sleeps
          \/ /\ Last(posts').kind = "net"
             /\ Len(posts') < max_retries
             /\ C12_Sending'
             /\ Len(sleeps') = Len(sleeps) + 1
             /\ SubSeq(sleeps', 1, Len(sleeps)) = sleeps
          \/ /\ Last(posts').kind = "net"
             /\ Len(posts') >= max_retries
             /\ C12_RetriesExhausted'
             /\ sleeps' = sleeps

C12_DispatchStateMachine == [][C12_Step]_vars

\* C13: a dispatch makes at most max_retries POSTs and at most
\* max_retries - 1 sleeps, and it ends by returning a result: once a success
\* or an HTTP error status has been received, or max_retries attempts have
\* been made, the call has returned.
C13_ReturnsWithinBounds ==
    /\ Len(posts) <= max_retries
    /\ Len(sleeps) <= max_retries - 1
    /\ pc \in {"idle", "sending", "returned"}
    /\ (posts # <<>> /\ (Last(posts).kind # "net" \/ Len(posts) = max_retries))
       => pc = "returned"

\* the attempts that failed, and those of them the code reports: an HTTP
\* error status, and the network failure of the last allowed attempt
C14_Failing == {i \in 1..Len(posts) : posts[i].kind \in {"http", "net"}}
C14_Reported ==
    {i \in 1..Len(posts) :
        \/ posts[i].kind = "http"
        \/ posts[i].kind = "net" /\ i >= max_retries}

\* C14 as stated: when a dispatch that made attempts is over, every failing
\* attempt, retried network failures included, has had an error message
\* surfaced, and a returned failure result has an error reported before it.
C14_EveryFailureSurfaced ==
    (pc # "sending" /\ posts # <<>>)
    => /\ Len(errors) >= Cardinality(C14_Failing)
       /\ (pc = "returned" /\ result.text \in {CALL_FAILED, UNKNOWN_FAILURE})
          => errors # <<>>

\* C14 as amended: an error is surfaced for an attempt that ends in an HTTP
\* error status and for the network failure that exhausts the retries, and
\* for no other attempt: a network failure that is retried is not reported.
\* A dispatch that made an attempt and returns the call-failed or the
\* unknown-failure result has reported exactly one error.
C14_OnlyFinalFailureSurfaced ==
    /\ Len(errors) = Cardinality(C14_Reported)
    /\ \A j \in 1..Len(errors) :
           \/ /\ errors[j] = CallFailedMessage
              /\ Last(posts).kind = "net"
           \/ /\ errors[j].template = "HTTP_ERROR"
              /\ Last(posts) = PostHttp(errors[j].status)
    /\ pc = "sending" => errors = <<>>
    /\ (pc = "returned" /\ posts # <<>>
        /\ result.text \in {CALL_FAILED, UNKNOWN_FAILURE})
       => Len(errors) = 1

C14_Witness ==
    /\ pc = "returned"
    /\ Len(posts) = 3
    /\ posts[1].kind = "net"
    /\ posts[2].kind = "net"
    /\ posts[3].kind = "ok"
    /\ Len(sleeps) = 2
    /\ errors = <<>>

\* seq is kept as it is at the front of seq2
C15_Prefix(seq, seq2) ==
    Len(seq) <= Len(seq2) /\ SubSeq(seq2, 1, Len(seq)) = seq

\* C15: in every step of the session the transcript keeps all its entries,
\* unchanged and in place, and only grows at the end; while a dispatch is
\* under way the history it was given stays as it is, and the only entry a
\* step of the dispatch adds is the assistant message stored on its return.
C15_Step ==
    /\ C15_Prefix(messages, messages')
    /\ pc = "sending"
       => /\ history' = history
          /\ \/ messages' = messages
             \/ /\ pc' = "returned"
                /\ Len(messages') = Len(messages) + 1
                /\ Last(messages').role = "assistant"

C15_TranscriptAppendOnly == [][C15_Step]_vars

C15_Witness ==
    /\ pc = "returned"
    /\ Len(messages) = 8
    /\ Len(history) = 5
    /\ messages[8].role = "assistant"
    /\ messages[1].role = "user"

\* C16: every interaction appends the user message and then one assistant
\* message, whatever the outcome of the call: between interactions the
\* transcript has even length, its roles alternate from user on, and the
\* contents of a request alternate roles and end with the user prompt.
C16_TwoEntriesPerInteraction ==
    /\ pc # "sending" => Len(messages) % 2 = 0
    /\ pc = "sending" => Len(messages) % 2 = 1
    /\ \A i \in 1..Len(messages) :
           messages[i].role = IF i % 2 = 1 THEN "user" ELSE "assistant"
    /\ pc = "sending"
       => /\ Last(contents).role = "user"
          /\ \A i \in 1..(Len(contents) - 1) :
                 contents[i].role # contents[i + 1].role

RECURSIVE C17_Sum(_)
C17_Sum(seq) == IF seq = <<>> THEN 0 ELSE Head(seq) + C17_Sum(Tail(seq))
\* the dispatch ended in retries-exhausted
C17_Exhausted == pc = "returned" /\ result.text = CALL_FAILED

\* C17: no sleep follows the last failed attempt: a dispatch that ends in
\* retries-exhausted has made max_retries - 1 sleeps, 2^(max_retries-1) - 1
\* seconds in total (15 for max_retries = 5, 0 for max_retries = 1), and no
\* dispatch sleeps longer in total; with max_retries <= 0 no attempt is made
\* and nothing is slept.
C17_TotalBackoff ==
    /\ max_retries <= 0 => sleeps = <<>>
    /\ max_retries >= 1
       => /\ C17_Sum(sleeps) <= 2 ^ (max_retries - 1) - 1
          /\ C17_Exhausted
             => /\ Len(sleeps) = max_retries - 1
                /\ C17_Sum(sleeps) = 2 ^ (max_retries - 1) - 1
                /\ max_retries = 5 => C17_Sum(sleeps) = 15
                /\ max_retries = 1 => C17_Sum(sleeps) = 0

C17_Witness ==
    /\ max_retries = 5
    /\ C17_Exhausted
    /\ sleeps = <<1, 2, 4, 8>>
    /\ Len(posts) = 5

\* the texts a failed dispatch returns
C18_FailureTexts == {CALL_FAILED, UNKNOWN_FAILURE, NO_TEXT_FALLBACK}
\* a transcript entry that holds such a text
C18_FailureEntry(message) ==
    /\ message.role = "assistant"
    /\ \E t \in C18_FailureTexts : message.content = <<t>>

\* C18: the text of a failed dispatch is stored as an ordinary assistant
\* message, and every later request sends it upstream unchanged, as an
\* assistant entry with one text part like any answer, as long as it is
\* among the last 5 messages before the current one.
C18_FailureTextSentUpstream ==
    /\ (pc = "returned" /\ result.text \in C18_FailureTexts)
       => /\ messages # <<>>
          /\ Last(messages) = [role |-> "assistant", content |-> <<result.text>>]
    /\ pc = "sending"
       => LET prior == Len(messages) - 1
              kept == Min(prior, 5)
          IN  \A j \in (prior - kept + 1)..prior :
                  C18_FailureEntry(messages[j])
                  => contents[j - (prior - kept)]
                       = [role |-> "assistant",
                          parts |-> <<[text |-> messages[j].content]>>]

C18_Witness ==
    /\ pc = "sending"
    /\ Len(messages) = 7
    /\ Len(contents) = 6
    /\ C18_FailureEntry(messages[2])
    /\ contents[1] = [role |-> "assistant", parts |-> <<[text |-> <<CALL_FAILED>>]>>]
    /\ contents[3] = [role |-> "assistant", parts |-> <<[text |-> <<UNKNOWN_FAILURE>>]>>]
    /\ contents[5] = [role |-> "assistant", parts |-> <<[text |-> <<NO_TEXT_FALLBACK>>]>>]

====
